---- MODULE Spec2Model ----
(***************************************************************************)
(* Model of src/specs/int.rs: the PrimInt capability over the primitive    *)
(* integers and the foreign-endian wrappers BigEndian<T>, LittleEndian<T>. *)
(*                                                                         *)
(* A value of a primitive integer type T is its bit pattern, written as    *)
(* the sequence of its bytes from the most significant to the least        *)
(* significant one (so 0x1234_u16 is <<18, 52>>).  Signedness only matters *)
(* where the value is read as a number (formatting).  The host byte order  *)
(* (cfg target_endian) and the pointer width (the size of usize/isize) are *)
(* properties of the build and are fixed in the initial state.             *)
(***************************************************************************)
EXTENDS Naturals, Sequences, FiniteSets

VARIABLES host, T, order, w, made, out

vars == <<host, T, order, w, made, out>>

----------------------------------------------------------------------------
(* Bounds of the model: the inputs.                                        *)

\* how many of the sample bytes the inputs are built from
NumBytes == 5

\* 0x00 0x12 0x34 0xDE 0xAD 0xFF 0x80 0x01
SampleBytes == <<0, 18, 52, 222, 173, 255, 128, 1>>

ByteVals == {SampleBytes[i] : i \in 1..NumBytes}

\* the input values of a type of n bytes: two sample bytes, alternating, so
\* that values that are their own byte reversal (both bytes equal) and values
\* that are not both occur at every width above one byte
SampleValues(n) ==
    {[i \in 1..n |-> IF i % 2 = 1 THEN p[1] ELSE p[2]] : p \in ByteVals \X ByteVals}

----------------------------------------------------------------------------
(* The build.                                                              *)

Hosts == {"big", "little"}

PointerBytes == {2, 4, 8}

\* the types impl_primint! is invoked on
PrimIntTypes ==
    {[name |-> "u8", bytes |-> 1, signed |-> FALSE],
     [name |-> "u16", bytes |-> 2, signed |-> FALSE],
     [name |-> "u32", bytes |-> 4, signed |-> FALSE],
     [name |-> "u64", bytes |-> 8, signed |-> FALSE],
     [name |-> "u128", bytes |-> 16, signed |-> FALSE],
     [name |-> "i8", bytes |-> 1, signed |-> TRUE],
     [name |-> "i16", bytes |-> 2, signed |-> TRUE],
     [name |-> "i32", bytes |-> 4, signed |-> TRUE],
     [name |-> "i64", bytes |-> 8, signed |-> TRUE],
     [name |-> "i128", bytes |-> 16, signed |-> TRUE]}
    \cup {[name |-> "usize", bytes |-> n, signed |-> FALSE] : n \in PointerBytes}
    \cup {[name |-> "isize", bytes |-> n, signed |-> TRUE] : n \in PointerBytes}

Orders == {"BigEndian", "LittleEndian"}

Values == SampleValues(T.bytes)

----------------------------------------------------------------------------
(* PrimInt: the four conversions, mapped to the standard library.          *)

\* $t::swap_bytes, which the standard conversions are built on
swap_bytes(x) == [i \in 1..Len(x) |-> x[Len(x) + 1 - i]]

from_be(x) == IF host = "big" THEN x ELSE swap_bytes(x)

from_le(x) == IF host = "little" THEN x ELSE swap_bytes(x)

\* to_be with the order confused for the little-endian one
to_be_as_le(x) == IF host = "little" THEN x ELSE swap_bytes(x)

to_be(x) == IF host = "big" THEN x ELSE swap_bytes(x)

to_le(x) == IF host = "little" THEN x ELSE swap_bytes(x)

----------------------------------------------------------------------------
(* Formatting of a primitive integer: its decimal digits.                  *)

DigitChar == <<"0", "1", "2", "3", "4", "5", "6", "7", "8", "9">>

IsZero(x) == \A i \in 1..Len(x) : x[i] = 0

IsNegative(x) == T.signed /\ x[1] >= 128

\* long division of the bytes x[i..] by 10 with r carried in:
\* <<quotient bytes, remainder>>
RECURSIVE Div10(_, _, _)
Div10(x, i, r) ==
    IF i > Len(x) THEN <<(<<>>), r>>
    ELSE LET cur == r * 256 + x[i]
             rest == Div10(x, i + 1, cur % 10)
         IN  <<(<<cur \div 10>>) \o rest[1], rest[2]>>

RECURSIVE Digits(_)
Digits(x) ==
    IF IsZero(x) THEN <<>>
    ELSE LET d == Div10(x, 1, 0) IN Digits(d[1]) \o <<DigitChar[d[2] + 1]>>

\* x + 1 on the bytes x[1..i], wrapping
RECURSIVE Increment(_, _)
Increment(x, i) ==
    IF i = 0 THEN x
    ELSE IF x[i] = 255 THEN Increment([x EXCEPT ![i] = 0], i - 1)
    ELSE [x EXCEPT ![i] = x[i] + 1]

\* the magnitude of a negative two's complement value
Magnitude(x) == Increment([i \in 1..Len(x) |-> 255 - x[i]], Len(x))

\* <T as core::fmt::Display>::fmt
T_fmt(x) ==
    IF IsZero(x) THEN <<"0">>
    ELSE IF IsNegative(x) THEN <<"-">> \o Digits(Magnitude(x))
    ELSE Digits(x)

\* a default that is not the zero of the type
T_default_one == [i \in 1..T.bytes |-> IF i = T.bytes THEN 1 ELSE 0]

\* <T as Default>::default()
T_default == [i \in 1..T.bytes |-> 0]

----------------------------------------------------------------------------
(* BigEndian<T>                                                            *)

BigEndian_clone(self) == [raw |-> self.raw]

BigEndian_from_raw(raw) == [raw |-> raw]

\* to_raw that converts on the way out
BigEndian_to_raw_converted(self) == from_be(self.raw)

BigEndian_to_raw(self) == self.raw

BigEndian_from_native(native) == [raw |-> to_le(native)]

\* to_native through from_be, from_native left as it is
BigEndian_to_native_be(self) == from_be(self.raw)

BigEndian_to_native(self) == from_le(self.raw)

BigEndian_default == BigEndian_from_native(T_default)

BigEndian_Display_fmt(self) == T_fmt(BigEndian_to_native(self))

BigEndian_Debug_fmt(self) ==
    <<"BigEndian", " { ", "raw", ": ">> \o T_fmt(self.raw) \o <<" }">>

BigEndian_from(v) == BigEndian_from_native(v)

\* equality of the converted left side with the raw right side
BigEndian_eq_mixed(self, other) == \* to_native through from_be, from_native left as it is
BigEndian_to_native_be(self) = other.raw

BigEndian_eq(self, other) == self.raw = other.raw

----------------------------------------------------------------------------
(* LittleEndian<T>                                                         *)

LittleEndian_clone(self) == [raw |-> self.raw]

LittleEndian_from_raw(raw) == [raw |-> raw]

LittleEndian_to_raw(self) == self.raw

LittleEndian_from_native(native) == [raw |-> to_le(native)]

LittleEndian_to_native(self) == from_le(self.raw)

LittleEndian_default == LittleEndian_from_native(T_default)

LittleEndian_Display_fmt(self) == T_fmt(LittleEndian_to_native(self))

LittleEndian_Debug_fmt(self) ==
    <<"LittleEndian", " { ", "raw", ": ">> \o T_fmt(self.raw) \o <<" }">>

LittleEndian_from(v) == LittleEndian_from_native(v)

LittleEndian_eq(self, other) == self.raw = other.raw

----------------------------------------------------------------------------
(* ForeignEndian<T>: the call goes to the implementation of the wrapper.   *)

from_raw(raw) ==
    IF order = "BigEndian" THEN BigEndian_from_raw(raw) ELSE LittleEndian_from_raw(raw)

to_raw(self) ==
    IF order = "BigEndian" THEN BigEndian_to_raw(self) ELSE LittleEndian_to_raw(self)

from_native(native) ==
    IF order = "BigEndian" THEN BigEndian_from_native(native)
    ELSE LittleEndian_from_native(native)

to_native(self) ==
    IF order = "BigEndian" THEN BigEndian_to_native(self) ELSE LittleEndian_to_native(self)

clone(self) ==
    IF order = "BigEndian" THEN BigEndian_clone(self) ELSE LittleEndian_clone(self)

default == IF order = "BigEndian" THEN BigEndian_default ELSE LittleEndian_default

from(v) == IF order = "BigEndian" THEN BigEndian_from(v) ELSE LittleEndian_from(v)

eq(self, other) ==
    IF order = "BigEndian" THEN BigEndian_eq(self, other) ELSE LittleEndian_eq(self, other)

Display_fmt(self) ==
    IF order = "BigEndian" THEN BigEndian_Display_fmt(self)
    ELSE LittleEndian_Display_fmt(self)

Debug_fmt(self) ==
    IF order = "BigEndian" THEN BigEndian_Debug_fmt(self) ELSE LittleEndian_Debug_fmt(self)

----------------------------------------------------------------------------
(* The state: one build (host, T, order), the wrapper constructed (w, and  *)
(* in made how it was constructed), and the result of the last call made   *)
(* on it or on a primitive integer (out).  The functions are pure and the  *)
(* wrappers immutable, so a behaviour is the evaluation of one expression: *)
(* a value is constructed, or a primitive converted, once, and calls on    *)
(* the result follow.                                                      *)

NoWrapper == [raw |-> <<>>]

NotMade == [by |-> "none"]

NoCall == [op |-> "none"]

Init ==
    /\ host \in Hosts
    /\ T \in PrimIntTypes
    /\ order \in Orders
    /\ w = NoWrapper
    /\ made = NotMade
    /\ out = NoCall

Build == UNCHANGED <<host, T, order>>

\* nothing has been evaluated yet
Idle == made.by = "none" /\ out.op = "none"

\* ---- constructors ----

FromRaw ==
    /\ Idle
    /\ \E r \in Values :
        /\ w' = from_raw(r)
        /\ made' = [by |-> "from_raw", arg |-> r]
        /\ out' = NoCall
        /\ Build

FromNative ==
    /\ Idle
    /\ \E v \in Values :
        /\ w' = from_native(v)
        /\ made' = [by |-> "from_native", arg |-> v]
        /\ out' = NoCall
        /\ Build

From ==
    /\ Idle
    /\ \E v \in Values :
        /\ w' = from(v)
        /\ made' = [by |-> "from", arg |-> v]
        /\ out' = NoCall
        /\ Build

Default ==
    /\ Idle
    /\ w' = default
    /\ made' = [by |-> "default"]
    /\ out' = NoCall
    /\ Build

\* ---- calls on the wrapper ----

\* a wrapper has been constructed and nothing has been called on it yet
Made == made.by # "none" /\ out.op = "none"

ToRaw ==
    /\ Made
    /\ out' = [op |-> "to_raw", val |-> to_raw(w)]
    /\ UNCHANGED <<w, made>>
    /\ Build

ToNative ==
    /\ Made
    /\ out' = [op |-> "to_native", val |-> to_native(w)]
    /\ UNCHANGED <<w, made>>
    /\ Build

Clone ==
    /\ Made
    /\ out' = [op |-> "clone", val |-> clone(w)]
    /\ UNCHANGED <<w, made>>
    /\ Build

\* to_raw() of the copy that Clone returned
CloneToRaw ==
    /\ out.op = "clone"
    /\ out' = [op |-> "clone.to_raw", val |-> to_raw(out.val)]
    /\ UNCHANGED <<w, made>>
    /\ Build

Display ==
    /\ Made
    /\ out' = [op |-> "display", val |-> Display_fmt(w)]
    /\ UNCHANGED <<w, made>>
    /\ Build

Debug ==
    /\ Made
    /\ out' = [op |-> "debug", val |-> Debug_fmt(w)]
    /\ UNCHANGED <<w, made>>
    /\ Build

\* w == from_native(b)
EqNative ==
    /\ Made
    /\ \E b \in Values :
           LET other == from_native(b)
           IN  out' = [op |-> "eq", by |-> "from_native", arg |-> b,
                       other |-> other, val |-> eq(w, other)]
    /\ UNCHANGED <<w, made>>
    /\ Build

\* w == from_raw(r)
EqRaw ==
    /\ Made
    /\ \E r \in Values :
           LET other == from_raw(r)
           IN  out' = [op |-> "eq", by |-> "from_raw", arg |-> r,
                       other |-> other, val |-> eq(w, other)]
    /\ UNCHANGED <<w, made>>
    /\ Build

\* ---- calls on a primitive integer ----

Prim(op, x, val) ==
    /\ out' = [op |-> op, arg |-> x, val |-> val]
    /\ w' = NoWrapper
    /\ made' = NotMade
    /\ Build

ToBe == Idle /\ \E x \in Values : Prim("to_be", x, to_be(x))

ToLe == Idle /\ \E x \in Values : Prim("to_le", x, to_le(x))

FromBe == Idle /\ \E x \in Values : Prim("from_be", x, from_be(x))

FromLe == Idle /\ \E x \in Values : Prim("from_le", x, from_le(x))

\* from_be of what to_be returned
FromBeOfToBe ==
    /\ out.op = "to_be"
    /\ Prim("from_be(to_be)", out.arg, from_be(out.val))

\* from_le of what to_le returned
FromLeOfToLe ==
    /\ out.op = "to_le"
    /\ Prim("from_le(to_le)", out.arg, from_le(out.val))

Next ==
    \/ FromRaw
    \/ FromNative
    \/ From
    \/ Default
    \/ ToRaw
    \/ ToNative
    \/ Clone
    \/ CloneToRaw
    \/ Display
    \/ Debug
    \/ EqNative
    \/ EqRaw
    \/ ToBe
    \/ ToLe
    \/ FromBe
    \/ FromLe
    \/ FromBeOfToBe
    \/ FromLeOfToLe

Spec == Init /\ [][Next]_vars

----------------------------------------------------------------------------
(* Vocabulary of the properties.                                           *)

\* the bytes of x in the opposite order
RECURSIVE Reversed(_)
Reversed(x) == IF x = <<>> THEN <<>> ELSE Reversed(Tail(x)) \o <<Head(x)>>

\* the wrapper order that is the host's own
HostOrder == IF host = "big" THEN "BigEndian" ELSE "LittleEndian"

Matching == order = HostOrder

\* the bytes of the value x as they lie in the host's memory, lowest address first
MemoryBytes(x) == IF host = "big" THEN x ELSE Reversed(x)

\* the bytes of the value v laid out in byte order ord, first byte first
Encoded(v, ord) == IF ord = "BigEndian" THEN v ELSE Reversed(v)

\* the value whose layout in byte order ord is the bytes m
Decoded(m, ord) == IF ord = "BigEndian" THEN m ELSE Reversed(m)

Symmetric(x) == Reversed(x) = x

----------------------------------------------------------------------------
(* C1: round trip.  For both wrappers, every type and either host,         *)
(* from_native(v).to_native() is v.                                        *)
RoundTrip ==
    (made.by = "from_native" /\ out.op = "to_native") => out.val = made.arg

\* a round trip through a raw value that differs from the native one
RoundTripSwapped ==
    /\ made.by = "from_native"
    /\ out.op = "to_native"
    /\ order = "BigEndian"
    /\ w.raw # made.arg
    /\ out.val = made.arg

(* C2: layout of from_native.  BigEndian::from_native(v) holds the bytes   *)
(* of v in memory most significant byte first, LittleEndian::from_native(v)*)
(* least significant byte first, and to_native() of both returns v.        *)
ForeignLayout ==
    /\ (made.by = "from_native" /\ out.op = "to_raw")
           => MemoryBytes(out.val) = Encoded(made.arg, order)
    /\ (made.by = "from_native" /\ out.op = "to_native") => out.val = made.arg

(* C3: on a host whose order differs from the wrapper's, to_native() of    *)
(* any wrapper is the byte reversal of its to_raw().                       *)
ReversalOnMismatch ==
    (made.by # "none" /\ ~Matching /\ out.op = "to_native")
        => out.val = Reversed(to_raw(w))

(* C4: on a host whose order is the wrapper's, to_raw() and to_native() of *)
(* any wrapper agree, and from_native(v).to_raw() is v.                    *)
MatchingHost ==
    /\ (made.by # "none" /\ Matching /\ out.op = "to_native") => out.val = to_raw(w)
    /\ (made.by = "from_native" /\ Matching /\ out.op = "to_raw") => out.val = made.arg

(* C5: raw passthrough.  from_raw(r).to_raw() is r, also through a clone,  *)
(* and a clone is the wrapper it was made from.                            *)
RawPassthrough ==
    /\ (made.by = "from_raw" /\ out.op \in {"to_raw", "clone.to_raw"})
           => out.val = made.arg
    /\ out.op = "clone" => out.val = w

\* a raw value that is not its own reversal came back unchanged on each host
RawPassthroughSeen ==
    /\ made.by = "from_raw"
    /\ out.op = "clone.to_raw"
    /\ ~Symmetric(made.arg)
    /\ ~Matching
    /\ out.val = made.arg

(* C6: equality reflects native equality.  x == y holds exactly when       *)
(* x.to_native() is y.to_native(), and from_native(a) == from_native(b)    *)
(* exactly when a is b.                                                    *)
EqualityIsNative ==
    out.op = "eq" =>
        /\ out.val <=> (to_native(w) = to_native(out.other))
        /\ (made.by = "from_native" /\ out.by = "from_native")
               => (out.val <=> (made.arg = out.arg))

\* a wrapper made from a native value equal to one made from raw bytes that
\* differ from that native value
EqualAcrossConstructors ==
    /\ out.op = "eq"
    /\ out.val
    /\ made.by = "from_native"
    /\ out.by = "from_raw"
    /\ out.arg # made.arg

(* C7: the default is zero.  Default::default().to_native() is the zero of *)
(* the type, and the default equals from_native(0).                        *)
DefaultIsZero ==
    made.by = "default" =>
        /\ out.op = "to_native"
               => (Len(out.val) = T.bytes /\ \A i \in 1..T.bytes : out.val[i] = 0)
        /\ (out.op = "eq" /\ out.by = "from_native"
               /\ \A i \in 1..T.bytes : out.arg[i] = 0) => out.val

\* the default compared equal to from_native(0) for a 128-bit type
DefaultComparedToZero ==
    /\ made.by = "default"
    /\ out.op = "eq"
    /\ out.by = "from_native"
    /\ out.arg = [i \in 1..T.bytes |-> 0]
    /\ out.val
    /\ T.bytes = 16

(* C8: formatting shows the native value.  What Display prints for a       *)
(* wrapper is the value its bytes have in the wrapper's declared byte      *)
(* order, never the unconverted raw value, and From::from(v) is            *)
(* from_native(v).                                                         *)
DisplayShowsNative ==
    /\ out.op = "display" => out.val = T_fmt(Decoded(MemoryBytes(w.raw), order))
    /\ (out.op = "display" /\ ~Matching /\ ~Symmetric(w.raw)) => out.val # T_fmt(w.raw)
    /\ made.by = "from" => w = from_native(made.arg)

(* C10: the primitive conversions.  from_be, from_le, to_be and to_le      *)
(* return their argument when the named order is the host's and its byte   *)
(* reversal otherwise; from_be(to_be(x)) and from_le(to_le(x)) are x; and  *)
(* of to_be and to_le exactly one leaves a value that is not its own       *)
(* reversal unchanged.                                                     *)
PrimitiveConversions ==
    /\ out.op \in {"to_be", "from_be"}
           => out.val = (IF host = "big" THEN out.arg ELSE Reversed(out.arg))
    /\ out.op \in {"to_le", "from_le"}
           => out.val = (IF host = "little" THEN out.arg ELSE Reversed(out.arg))
    /\ out.op \in {"from_be(to_be)", "from_le(to_le)"} => out.val = out.arg
    /\ (out.op = "to_be" /\ ~Symmetric(out.arg))
           => ((out.val = out.arg) # (to_le(out.arg) = out.arg))
    /\ (out.op = "to_le" /\ ~Symmetric(out.arg))
           => ((out.val = out.arg) # (to_be(out.arg) = out.arg))

\* a 128-bit value that is not its own reversal went through to_be and back
\* on a little-endian host
PrimitiveRoundTripSeen ==
    /\ out.op = "from_be(to_be)"
    /\ host = "little"
    /\ T.bytes = 16
    /\ ~Symmetric(out.arg)
    /\ out.val = out.arg

====
